---- MODULE Spec2Model ----
(***************************************************************************)
(* express-type-safe-routes: the validation middleware, route(), the       *)
(* fluent RouteBuilder and the typed router's registration wrapper, with   *)
(* the Express dispatch of one route's handler stack as the environment.   *)
(*                                                                         *)
(* The request object is the Express 4 one the repository's tests run on:  *)
(* body, query and params are plain writable fields.                       *)
(***************************************************************************)
EXTENDS Integers, Sequences, FiniteSets, TLC

VARIABLES
    defs,       \* the RouteDefinition objects returned by route()
    routeArgs,  \* history: the schema set passed to each route() call
    builders,   \* the RouteBuilder objects returned by typedRoute()
    calls,      \* number of configuration calls made on each builder
    chain,      \* the builder each of the application's references points to
    configLog,  \* history: the configuration calls made, in call order
    lastVia,    \* history: the reference the latest configuration call used
    built,      \* the arrays returned by RouteBuilder.handler(fn)
    builtFrom,  \* history: the builder's fields when handler(fn) was called
    builtAt,    \* history: the reference, fn and log length of each handler(fn)
    buildResult,\* outcomes of the build() calls made on handler(fn) results
    router,     \* calls received by the underlying router's original methods
    wrapCalls,  \* history: the wrapped calls the application made
    request,    \* the request being dispatched through a registered stack
    flights,    \* requests in flight at the same time, each through its stack
    leftBy,     \* history: the error list the latest call of each route's
                \* validation step ended with
    handled     \* number of requests received so far

vars == <<defs, routeArgs, builders, calls, chain, configLog, lastVia, built,
          builtFrom, builtAt, buildResult, router, wrapCalls, request, handled,
          flights, leftBy>>

routeVars == <<defs, routeArgs>>
builderVars == <<builders, calls, chain, configLog, lastVia>>
builtVars == <<built, builtFrom, builtAt, buildResult>>
routerVars == <<router, wrapCalls>>
requestVars == <<request, handled>>
flightVars == <<flights, leftBy>>

-----------------------------------------------------------------------------
(* Bounds *)

\* requests the application receives in one behaviour
MaxRequests == 2
\* configuration calls (body, query, params, response, use) made on a builder
MaxBuilderCalls == 2

-----------------------------------------------------------------------------
(* Values and schemas (zod is an external collaborator: a schema is known  *)
(* only by what safeParse returns for each value)                          *)

Undefined == "undefined"

\* raw request values: a missing value, the string "2", the string "a@b.co"
RawVal == {"undefined", "s2", "sEmail"}
\* canonicalized outputs add the numbers 1 and 2
Val == RawVal \cup {"n1", "n2"}

Locations == {"body", "query", "params"}

\* "page"  : z.coerce.number().int().min(1).default(1)   (coerces, defaults)
\* "email" : z.string().min(3).email()                   (identity on success)
\* "digits": z.string().regex(/^\d+$/).transform(Number) (output is not an input)
Schemas == {"page", "email", "digits"}
SchemaOrUndefined == Schemas \cup {Undefined}

Statuses == {200, 201}

Success(v) == [success |-> TRUE, data |-> v, issues |-> <<>>]
Failure(is) == [success |-> FALSE, data |-> Undefined, issues |-> is]

\* schema.safeParse(value): never throws, returns the parsed data or the issues
safeParse(schema, v) ==
    CASE schema = "page" ->
            (CASE v = "undefined" -> Success("n1")
               [] v = "s2"        -> Success("n2")
               [] v = "n1"        -> Success("n1")
               [] v = "n2"        -> Success("n2")
               [] OTHER           -> Failure(<<"invalid_type">>))
      [] schema = "email" ->
            (CASE v = "sEmail"    -> Success("sEmail")
               [] v = "s2"        -> Failure(<<"too_small", "invalid_string">>)
               [] OTHER           -> Failure(<<"invalid_type">>))
      [] schema = "digits" ->
            (CASE v = "s2"        -> Success("n2")
               [] v = "sEmail"    -> Failure(<<"invalid_string">>)
               [] OTHER           -> Failure(<<"invalid_type">>))

-----------------------------------------------------------------------------
(* src/validation/middleware.ts *)

\* the ValidationSchemas object: absent keys read as undefined
ValidationSchemas == [Locations -> SchemaOrUndefined]

NoSchemas == [l \in Locations |-> Undefined]

\* What one call of a RequestHandler did, as Express and the client see it:
\* the request fields before and after, the safeParse calls made, the fields
\* assigned, the arguments of each next() call and each response sent.
Invocation(step, before) ==
    [step |-> step, before |-> before, after |-> before, parsed |-> <<>>,
     written |-> <<>>, nexts |-> <<>>, sends |-> <<>>, errors |-> <<>>,
     threw |-> FALSE]

\* Variant of ValidateLocation that hands req.body to every schema.
ValidateLocationReadsBody(schemas, loc, inv) ==
    IF schemas[loc] # Undefined
    THEN LET result == safeParse(schemas[loc], inv.after["body"])
             logged == Append(inv.parsed,
                              [schema |-> schemas[loc], location |-> loc,
                               value |-> inv.after["body"]])
         IN  IF ~result.success
             THEN [inv EXCEPT !.parsed = logged,
                              !.errors = Append(@, [location |-> loc,
                                                    issues |-> result.issues])]
             ELSE [inv EXCEPT !.parsed = logged,
                              !.after[loc] = result.data,
                              !.written = Append(@, loc)]
    ELSE inv

\* Variant of ValidateLocation that calls schema.parse(), which throws a
\* ZodError on failure: the rest of the handler is skipped.
ValidateLocationParseThrows(schemas, loc, inv) ==
    IF schemas[loc] # Undefined /\ ~inv.threw
    THEN LET result == safeParse(schemas[loc], inv.after[loc])
             logged == Append(inv.parsed,
                              [schema |-> schemas[loc], location |-> loc,
                               value |-> inv.after[loc]])
         IN  IF ~result.success
             THEN [inv EXCEPT !.parsed = logged, !.threw = TRUE]
             ELSE [inv EXCEPT !.parsed = logged,
                              !.after[loc] = result.data,
                              !.written = Append(@, loc)]
    ELSE inv

\* Variant of ValidateLocation without the assignment of result.data: the
\* field keeps its raw value on success.
ValidateLocationKeepsRaw(schemas, loc, inv) ==
    IF schemas[loc] # Undefined
    THEN LET result == safeParse(schemas[loc], inv.after[loc])
             logged == Append(inv.parsed,
                              [schema |-> schemas[loc], location |-> loc,
                               value |-> inv.after[loc]])
         IN  IF ~result.success
             THEN [inv EXCEPT !.parsed = logged,
                              !.errors = Append(@, [location |-> loc,
                                                    issues |-> result.issues])]
             ELSE [inv EXCEPT !.parsed = logged]
    ELSE inv

\* Variant of ValidateLocation that assigns result.data outside the else
\* branch: a failing field is overwritten with undefined.
ValidateLocationAssignsAlways(schemas, loc, inv) ==
    IF schemas[loc] # Undefined
    THEN LET result == safeParse(schemas[loc], inv.after[loc])
             logged == Append(inv.parsed,
                              [schema |-> schemas[loc], location |-> loc,
                               value |-> inv.after[loc]])
         IN  IF ~result.success
             THEN [inv EXCEPT !.parsed = logged,
                              !.errors = Append(@, [location |-> loc,
                                                    issues |-> result.issues]),
                              !.after[loc] = result.data,
                              !.written = Append(@, loc)]
             ELSE [inv EXCEPT !.parsed = logged,
                              !.after[loc] = result.data,
                              !.written = Append(@, loc)]
    ELSE inv

\* One `if (schemas.<loc>) { ... }` block of the middleware (lines 19-26,
\* 28-35, 37-44), acting on the invocation so far.
ValidateLocation(schemas, loc, inv) ==
    IF schemas[loc] # Undefined
    THEN LET result == safeParse(schemas[loc], inv.after[loc])
             logged == Append(inv.parsed,
                              [schema |-> schemas[loc], location |-> loc,
                               value |-> inv.after[loc]])
         IN  IF ~result.success
             THEN [inv EXCEPT !.parsed = logged,
                              !.errors = Append(@, [location |-> loc,
                                                    issues |-> result.issues])]
             ELSE [inv EXCEPT !.parsed = logged,
                              !.after[loc] = result.data,
                              !.written = Append(@, loc)]
    ELSE inv

\* Variant of ValidateAll that returns at the first failing location.
ValidateAllStopAtFirstFailure(schemas, inv) ==
    LET afterBody == ValidateLocation(schemas, "body", inv)
        afterQuery == IF afterBody.errors # <<>> THEN afterBody
                      ELSE ValidateLocation(schemas, "query", afterBody)
    IN  IF afterQuery.errors # <<>> THEN afterQuery
        ELSE ValidateLocation(schemas, "params", afterQuery)

\* Variant of ValidateAll whose query block tests and runs schemas.body.
ValidateAllQueryUsesBodySchema(schemas, inv) ==
    ValidateLocation(schemas, "params",
        ValidateLocation([schemas EXCEPT !["query"] = schemas["body"]], "query",
            ValidateLocation(schemas, "body", inv)))

\* The three blocks in source order: body, query, params.
ValidateAll(schemas, inv) ==
    ValidateLocation(schemas, "params",
        ValidateLocation(schemas, "query",
            ValidateLocation(schemas, "body", inv)))

\* Variant of ValidationResponse that reports only the first issue of each
\* location.
ValidationResponseFirstIssue(errors) ==
    [status |-> 400,
     body |-> [error |-> "Validation failed",
               details |-> [k \in DOMAIN errors |->
                               [location |-> errors[k].location,
                                issues |-> <<Head(errors[k].issues)>>]]]]

\* res.status(400).json({ error: 'Validation failed', details: errors })
ValidationResponse(errors) ==
    [status |-> 400,
     body |-> [error |-> "Validation failed", details |-> errors]]

\* Variant of Conclude that puts the raw fields back before it answers 400.
ConcludeRestoresRequest(inv) ==
    IF Len(inv.errors) > 0
    THEN [inv EXCEPT !.sends = Append(@, ValidationResponse(inv.errors)),
                     !.after = inv.before]
    ELSE [inv EXCEPT !.nexts = Append(@, Undefined)]

\* Variant of Conclude without the `return` after the 400 response.
ConcludeWithoutReturn(inv) ==
    IF Len(inv.errors) > 0
    THEN [inv EXCEPT !.sends = Append(@, ValidationResponse(inv.errors)),
                     !.nexts = Append(@, Undefined)]
    ELSE [inv EXCEPT !.nexts = Append(@, Undefined)]

\* Variant of Conclude without the final next().
ConcludeWithoutNext(inv) ==
    IF Len(inv.errors) > 0
    THEN [inv EXCEPT !.sends = Append(@, ValidationResponse(inv.errors))]
    ELSE inv

\* Lines 46-54: respond and return, or call next().
Conclude(inv) ==
    IF Len(inv.errors) > 0
    THEN [inv EXCEPT !.sends = Append(@, ValidationResponse(inv.errors))]
    ELSE [inv EXCEPT !.nexts = Append(@, Undefined)]

\* One call (req, res, next) of the RequestHandler returned by
\* createValidationMiddleware(schemas), as stack entry `step`, on a request
\* whose fields are `req`.
createValidationMiddleware(schemas, step, req) ==
    Conclude(ValidateAll(schemas, Invocation(step, req)))

\* Variant of NewErrors for a list declared once per middleware, outside the
\* returned handler: a call goes on with what the previous call left.
NewErrorsShared(left) == left

\* const errors: ValidationError[] = [] (line 17): the list a call starts
\* with, given the list the previous call of the same middleware ended with
NewErrors(left) == <<>>

\* the same call when the previous call of this middleware ended with the
\* error list `left`
validationHandler(schemas, step, req, left) ==
    Conclude(ValidateAll(schemas, [Invocation(step, req) EXCEPT
                                      !.errors = NewErrors(left)]))

-----------------------------------------------------------------------------
(* Processing steps: the RequestHandler values held in handler arrays *)

\* user functions: a terminal handler that sends a response, and a custom
\* middleware that calls next()
Fns == {"handler", "mw"}

ValidationStep(schemas) == [kind |-> "validation", schemas |-> schemas, fn |-> Undefined]
FnStep(f) == [kind |-> "fn", schemas |-> NoSchemas, fn |-> f]

\* bodies a user handler may send with res.status(s).json(b)
HandlerBodies == {"sEmail", "n1"}

-----------------------------------------------------------------------------
(* src/types.ts, src/route/route.ts *)

\* the response map: status code -> schema (absent statuses read undefined)
ResponseSchemas == [Statuses -> SchemaOrUndefined]
NoResponses == [s \in Statuses |-> Undefined]

\* RouteSchemas: four optional slots.  `response` absent is [defined |-> FALSE].
RouteSchemas ==
    [body : SchemaOrUndefined, query : SchemaOrUndefined,
     params : SchemaOrUndefined,
     response : [defined : BOOLEAN, byStatus : ResponseSchemas]]

\* Variant of routeMiddleware whose condition tests schemas.body only.
routeMiddlewareBodyOnly(schemas) ==
    IF schemas.body # Undefined
    THEN LET validationSchemas ==
                 [l \in Locations |->
                     CASE l = "body"   -> schemas.body
                       [] l = "query"  -> schemas.query
                       [] l = "params" -> schemas.params]
         IN  <<ValidationStep(validationSchemas)>>
    ELSE <<>>

\* Variant of routeMiddleware that also enforces the response map: the
\* schema for status 201 is run on the body when no body schema is given.
routeMiddlewareRunsResponse(schemas) ==
    LET body == IF schemas.body = Undefined /\ schemas.response.defined
                THEN schemas.response.byStatus[201] ELSE schemas.body
    IN  IF body # Undefined \/ schemas.query # Undefined
           \/ schemas.params # Undefined
        THEN LET validationSchemas ==
                     [l \in Locations |->
                         CASE l = "body"   -> body
                           [] l = "query"  -> schemas.query
                           [] l = "params" -> schemas.params]
             IN  <<ValidationStep(validationSchemas)>>
        ELSE <<>>

\* route(schemas): lines 43-52 build the middleware array
routeMiddleware(schemas) ==
    IF schemas.body # Undefined \/ schemas.query # Undefined
       \/ schemas.params # Undefined
    THEN LET validationSchemas ==
                 [l \in Locations |->
                     CASE l = "body"   -> schemas.body
                       [] l = "query"  -> schemas.query
                       [] l = "params" -> schemas.params]
         IN  <<ValidationStep(validationSchemas)>>
    ELSE <<>>

\* Variant of route that stores the schemas it validates with, without the
\* response map.
routeStoresValidationSchemas(schemas) ==
    [schemas |-> [schemas EXCEPT !.response =
                     [defined |-> FALSE, byStatus |-> NoResponses]],
     middleware |-> routeMiddleware(schemas),
     brand |-> "RouteDefinition",
     types |-> [body |-> Undefined, query |-> Undefined,
                params |-> Undefined, responses |-> Undefined]]

\* route(schemas): the returned RouteDefinition (lines 54-64)
route(schemas) ==
    [schemas |-> schemas,
     middleware |-> routeMiddleware(schemas),
     brand |-> "RouteDefinition",
     types |-> [body |-> Undefined, query |-> Undefined,
                params |-> Undefined, responses |-> Undefined]]

-----------------------------------------------------------------------------
(* src/route/RouteBuilder.ts *)

\* new RouteBuilder(): the field initialisers
typedRoute ==
    [bodySchema |-> Undefined, querySchema |-> Undefined,
     paramsSchema |-> Undefined, responseSchemas |-> NoResponses,
     middlewares |-> <<>>]

\* Variant of RouteBuilder_body that starts the builder over: the middlewares
\* added so far are lost.
RouteBuilder_bodyStartsOver(b, schema) ==
    [b EXCEPT !.bodySchema = schema, !.middlewares = <<>>]

RouteBuilder_body(b, schema) == [b EXCEPT !.bodySchema = schema]
RouteBuilder_query(b, schema) == [b EXCEPT !.querySchema = schema]
RouteBuilder_params(b, schema) == [b EXCEPT !.paramsSchema = schema]
\* Variant of RouteBuilder_response that starts a new map at every call.
RouteBuilder_responseReplaces(b, status, schema) ==
    [b EXCEPT !.responseSchemas = [NoResponses EXCEPT ![status] = schema]]

RouteBuilder_response(b, status, schema) ==
    [b EXCEPT !.responseSchemas = [@ EXCEPT ![status] = schema]]
RouteBuilder_use(b, middleware) ==
    [b EXCEPT !.middlewares = Append(@, middleware)]

\* Variant of RouteBuilder_handler that puts the use() middlewares in front
\* of the validation step.
RouteBuilder_handlerMiddlewaresFirst(b, fn) ==
    LET validation ==
            IF b.bodySchema # Undefined \/ b.querySchema # Undefined
               \/ b.paramsSchema # Undefined
            THEN <<ValidationStep([l \in Locations |->
                                     CASE l = "body"   -> b.bodySchema
                                       [] l = "query"  -> b.querySchema
                                       [] l = "params" -> b.paramsSchema])>>
            ELSE <<>>
    IN  (b.middlewares \o validation) \o <<fn>>

\* Variant of RouteBuilder_handler that leaves the params schema out of the
\* schemas it hands to createValidationMiddleware.
RouteBuilder_handlerWithoutParams(b, fn) ==
    LET validation ==
            IF b.bodySchema # Undefined \/ b.querySchema # Undefined
               \/ b.paramsSchema # Undefined
            THEN <<ValidationStep([l \in Locations |->
                                     CASE l = "body"   -> b.bodySchema
                                       [] l = "query"  -> b.querySchema
                                       [] l = "params" -> Undefined])>>
            ELSE <<>>
    IN  (validation \o b.middlewares) \o <<fn>>

\* handler(fn): the returned RequestHandler[]
RouteBuilder_handler(b, fn) ==
    LET validation ==
            IF b.bodySchema # Undefined \/ b.querySchema # Undefined
               \/ b.paramsSchema # Undefined
            THEN LET schemas ==
                         [l \in Locations |->
                             CASE l = "body"   -> b.bodySchema
                               [] l = "query"  -> b.querySchema
                               [] l = "params" -> b.paramsSchema]
                 IN  <<ValidationStep(schemas)>>
            ELSE <<>>
    IN  (validation \o b.middlewares) \o <<fn>>

\* the references the application keeps to a builder
Chains == {"a", "b"}

\* Variant of ReturnThis for a persistent builder: the call leaves its
\* receiver as it was and returns a configured copy.
ReturnCopy(heap, i, b) ==
    [heap |-> Append(heap, b), ret |-> Len(heap) + 1]

\* this.<field> = ...; return this: a configuration call on builder object i
\* that computes fields b writes them to object i and returns object i
ReturnThis(heap, i, b) ==
    [heap |-> [heap EXCEPT ![i] = b], ret |-> i]

\* Variant of ResultArray: handler() assembles the sequence in
\* this.middlewares and returns that array.
ResultArrayIsMiddlewares(b, steps) ==
    [builder |-> [b EXCEPT !.middlewares = steps], live |-> TRUE]

\* const result: RequestHandler[] = []; ...; return result: handler() fills
\* and returns a new array and only reads the fields of the builder b
ResultArray(b, steps) == [builder |-> b, live |-> FALSE]

\* how an array that handler() returned reads once the builder's fields are
\* b: an array of its own keeps its steps, an array that is the builder's
\* middlewares array shows what the builder holds
Returned(steps, at, b) == IF at.live THEN b.middlewares ELSE steps

\* members a RequestHandler[] answers to (Array.prototype, in part)
ArrayMembers == {"length", "concat", "forEach", "map", "push", "slice"}

\* result.<name>() on the array handler(fn) returned: a call of a missing
\* member throws TypeError; the members the model calls return the array
CallMember(result, name) ==
    IF name \in ArrayMembers
    THEN [threw |-> Undefined, value |-> result]
    ELSE [threw |-> "TypeError", value |-> <<>>]

-----------------------------------------------------------------------------
(* src/router/TypedRouter.ts *)

Methods == {"get", "post", "put", "patch", "delete"}

\* argument values of a wrapped registration call, by what the wrapper
\* inspects (typeof, null-ness, the __brand field, the middleware field) and
\* by what the underlying router inspects (array-ness and the elements)
DefinitionArg(d) ==
    [typeof |-> "object", isNull |-> FALSE, hasBrand |-> TRUE,
     brand |-> d.brand, middleware |-> d.middleware, step |-> FnStep(Undefined),
     isArray |-> FALSE, elements |-> <<>>]
FunctionArg(step) ==
    [typeof |-> "function", isNull |-> FALSE, hasBrand |-> FALSE,
     brand |-> Undefined, middleware |-> <<>>, step |-> step,
     isArray |-> FALSE, elements |-> <<>>]
\* a number such as 42
NumberArg ==
    [typeof |-> "number", isNull |-> FALSE, hasBrand |-> FALSE,
     brand |-> Undefined, middleware |-> <<>>, step |-> FnStep(Undefined),
     isArray |-> FALSE, elements |-> <<>>]
\* null
NullArg ==
    [typeof |-> "object", isNull |-> TRUE, hasBrand |-> FALSE,
     brand |-> Undefined, middleware |-> <<>>, step |-> FnStep(Undefined),
     isArray |-> FALSE, elements |-> <<>>]
\* a plain object without the __brand key, such as { schemas: {} }
PlainObjectArg ==
    [typeof |-> "object", isNull |-> FALSE, hasBrand |-> FALSE,
     brand |-> Undefined, middleware |-> <<>>, step |-> FnStep(Undefined),
     isArray |-> FALSE, elements |-> <<>>]
\* an array of handler functions passed without spreading it
ArrayArg(steps) ==
    [typeof |-> "object", isNull |-> FALSE, hasBrand |-> FALSE,
     brand |-> Undefined, middleware |-> <<>>, step |-> FnStep(Undefined),
     isArray |-> TRUE, elements |-> steps]

\* an object literal { __brand: 'RouteDefinition', middleware: steps } that
\* route() did not create
ForgedDefinitionArg(steps) ==
    [typeof |-> "object", isNull |-> FALSE, hasBrand |-> TRUE,
     brand |-> "RouteDefinition", middleware |-> steps,
     step |-> FnStep(Undefined), isArray |-> FALSE, elements |-> <<>>]
\* an object { __brand: 'Other', middleware: steps }
OtherBrandArg(steps) ==
    [typeof |-> "object", isNull |-> FALSE, hasBrand |-> TRUE,
     brand |-> "Other", middleware |-> steps,
     step |-> FnStep(Undefined), isArray |-> FALSE, elements |-> <<>>]
\* Object.assign(fn, { __brand: 'RouteDefinition', middleware: steps })
BrandedFunctionArg(step, steps) ==
    [typeof |-> "function", isNull |-> FALSE, hasBrand |-> TRUE,
     brand |-> "RouteDefinition", middleware |-> steps, step |-> step,
     isArray |-> FALSE, elements |-> <<>>]

\* Variant of isRouteDefinition without the typeof test.
isRouteDefinitionAnyBranded(value) ==
    /\ ~value.isNull
    /\ value.hasBrand
    /\ value.brand = "RouteDefinition"

isRouteDefinition(value) ==
    /\ value.typeof = "object"
    /\ ~value.isNull
    /\ value.hasBrand
    /\ value.brand = "RouteDefinition"

\* Variant of flatten that collects the steps of the definitions first and
\* the plain functions after them.
RECURSIVE flattenDefinitionsFirst(_)
flattenDefinitionsFirst(handlers) ==
    IF handlers = <<>> THEN <<>>
    ELSE LET handler == Head(handlers)
             rest == flattenDefinitionsFirst(Tail(handlers))
         IN  IF isRouteDefinition(handler) THEN handler.middleware \o rest
             ELSE IF handler.typeof = "function" THEN rest \o <<handler.step>>
             ELSE rest

\* Variant of flatten that pushes the plain functions first and splices the
\* steps of the definitions after them.
RECURSIVE flattenFunctionsFirst(_)
flattenFunctionsFirst(handlers) ==
    IF handlers = <<>> THEN <<>>
    ELSE LET handler == Head(handlers)
             rest == flattenFunctionsFirst(Tail(handlers))
         IN  IF isRouteDefinition(handler) THEN rest \o handler.middleware
             ELSE IF handler.typeof = "function" THEN <<handler.step>> \o rest
             ELSE rest

\* Variant of flatten that passes every argument that is not a definition on
\* to the underlying router.
RECURSIVE flattenPassesOthersOn(_)
flattenPassesOthersOn(handlers) ==
    IF handlers = <<>> THEN <<>>
    ELSE LET handler == Head(handlers)
             pushed == IF isRouteDefinition(handler) THEN handler.middleware
                       ELSE <<handler.step>>
         IN  pushed \o flattenPassesOthersOn(Tail(handlers))

\* the forEach of wrap(): lines 83-89
RECURSIVE flatten(_)
flatten(handlers) ==
    IF handlers = <<>> THEN <<>>
    ELSE LET handler == Head(handlers)
             pushed == IF isRouteDefinition(handler) THEN handler.middleware
                       ELSE IF handler.typeof = "function" THEN <<handler.step>>
                       ELSE <<>>
         IN  pushed \o flatten(Tail(handlers))

\* Variant of Spread that takes the steps out of the definition's own array
\* (handler.middleware.splice(0)).
SpreadDrains(d) == [d EXCEPT !.middleware = <<>>]

\* ...handler.middleware (line 85): the definition after the spread has read
\* its array; nothing of it is written
Spread(d) == d

\* wrap(method)(path, ...handlers): the calls made on the underlying router,
\* method being the original function the wrapper was created around
wrap(method, path, handlers) ==
    <<[method |-> method, receiver |-> "router", path |-> path,
       handlers |-> flatten(handlers)]>>

\* Variant of createTypedRouter whose put key wraps router.post.
createTypedRouterPutWrapsPost ==
    [name \in Methods |->
        CASE name = "get"    -> "get"
          [] name = "post"   -> "post"
          [] name = "put"    -> "post"
          [] name = "patch"  -> "patch"
          [] name = "delete" -> "delete"]

\* createTypedRouter(): for each key of typed, the original method of the
\* router that wrap() was given (lines 95-101)
createTypedRouter ==
    [name \in Methods |->
        CASE name = "get"    -> "get"
          [] name = "post"   -> "post"
          [] name = "put"    -> "put"
          [] name = "patch"  -> "patch"
          [] name = "delete" -> "delete"]

-----------------------------------------------------------------------------
(* Express dispatch of one registered handler stack (the environment) *)

\* the requests Express dispatches at the same time
Flights == {1, 2}

NoRequest ==
    [state |-> "idle", route |-> 0, idx |-> 0,
     req |-> [l \in Locations |-> Undefined],
     orig |-> [l \in Locations |-> Undefined],
     res |-> <<>>, trace |-> <<>>]

\* a request arriving at registered route r with the given raw fields
NewRequest(r, raw) ==
    [NoRequest EXCEPT !.state = IF Len(router[r].handlers) = 0
                                THEN "unhandled" ELSE "running",
                      !.route = r, !.idx = 1, !.req = raw, !.orig = raw]

Stack(rq) == router[rq.route].handlers

\* Express after a handler returns: the request keeps the fields the handler
\* left, the client gets what was sent; next() moves on to the following
\* handler (next(err) to the error handlers), and past the last handler the
\* request leaves the route.  With neither a response nor next() it hangs.
\* An exception thrown by a handler is caught by the router and handed to the
\* error handlers like next(err).
Dispatch(rq, inv) ==
    LET sent == rq.res \o inv.sends
    IN  [rq EXCEPT
            !.req = inv.after,
            !.res = sent,
            !.trace = Append(@, inv),
            !.idx = IF inv.nexts # <<>> THEN @ + 1 ELSE @,
            !.state = IF inv.threw THEN "errored"
                      ELSE IF inv.nexts # <<>>
                      THEN (IF inv.nexts[1] # Undefined THEN "errored"
                            ELSE IF rq.idx + 1 > Len(Stack(rq)) THEN "unhandled"
                            ELSE "running")
                      ELSE IF sent # <<>> THEN "responded" ELSE "hung"]

\* a user handler: reads the request, sends res.status(status).json(body)
RunHandler(step, req, status, body) ==
    [Invocation(step, req) EXCEPT
        !.sends = <<[status |-> status, body |-> [data |-> body]]>>]

\* a custom middleware: reads the request, calls next()
RunMiddleware(step, req) ==
    [Invocation(step, req) EXCEPT !.nexts = <<Undefined>>]

-----------------------------------------------------------------------------
(* Inputs of the specification *)

\* schema sets passed to route(): every choice for body, query and params,
\* with no response map or the map { 201: email }
SchemaSets ==
    {ss \in RouteSchemas :
        \/ ~ss.response.defined /\ ss.response.byStatus = NoResponses
        \/ ss.response.defined
           /\ ss.response.byStatus = [NoResponses EXCEPT ![201] = "email"]}

RawRequests == [Locations -> RawVal]

\* argument lists of the registration calls: a definition followed by the
\* handler, or a built array spread
ArgLists ==
    {<<DefinitionArg(defs[i]), FunctionArg(FnStep("handler"))>> : i \in DOMAIN defs}
    \cup {[k \in DOMAIN built[j] |-> FunctionArg(built[j][k])] : j \in DOMAIN built}

Paths == {"/items"}

\* the methods the application registers routes on
RegisteredMethods == {"get", "post"}

\* schemas the application passes to the builder's setters
BodySchemas == {"email"}
QuerySchemas == {"page"}
ParamsSchemas == {"digits"}
ResponseSchemaChoices == {"email"}
ResponseStatusChoices == {201}

-----------------------------------------------------------------------------
(* Actions *)

Init ==
    /\ defs = <<>>
    /\ routeArgs = <<>>
    /\ builders = <<>>
    /\ calls = <<>>
    /\ chain = [c \in Chains |-> 0]
    /\ configLog = <<>>
    /\ lastVia = Undefined
    /\ built = <<>>
    /\ builtFrom = <<>>
    /\ builtAt = <<>>
    /\ buildResult = <<>>
    /\ router = <<>>
    /\ wrapCalls = <<>>
    /\ request = NoRequest
    /\ handled = 0
    /\ flights = [f \in Flights |-> NoRequest]
    /\ leftBy = <<>>

\* the application under study defines one route: it creates one definition
\* or one builder, calls handler() once and registers once
NoRouteObject == defs = <<>> /\ builders = <<>>

\* const d = route(schemas)
Route(schemas) ==
    /\ defs' = Append(defs, route(schemas))
    /\ routeArgs' = Append(routeArgs, schemas)
    /\ UNCHANGED <<builderVars, builtVars, routerVars, requestVars, flightVars>>

\* const a = typedRoute(), b = a
TypedRoute ==
    /\ builders' = Append(builders, typedRoute)
    /\ calls' = Append(calls, 0)
    /\ chain' = [c \in Chains |-> Len(builders) + 1]
    /\ UNCHANGED <<configLog, lastVia, routeVars, builtVars, routerVars,
                   requestVars, flightVars>>

\* reference c points to a builder that has had fewer than max configuration
\* calls
Budget(c, max) == chain[c] # 0 /\ calls[chain[c]] < max

\* the receiver of a call made through reference c
This(c) == builders[chain[c]]

\* c = c.<op>(...): a configuration call through reference c that computes
\* the fields b; the reference takes the returned builder
Configure(c, b, call) ==
    LET done == ReturnThis(builders, chain[c], b)
    IN  /\ builders' = done.heap
        /\ chain' = [chain EXCEPT ![c] = done.ret]
        /\ calls' = [k \in DOMAIN done.heap |->
                        IF k = done.ret THEN calls[chain[c]] + 1 ELSE calls[k]]
        /\ configLog' = Append(configLog, call)
        /\ lastVia' = c
        /\ built' = [j \in DOMAIN built |-> Returned(built[j], builtAt[j], b)]
        /\ UNCHANGED <<builtFrom, builtAt, buildResult, routeVars, routerVars,
                       requestVars, flightVars>>

\* an entry of configLog
ConfigCall(op, status, schema, fn) ==
    [op |-> op, status |-> status, schema |-> schema, fn |-> fn]

BuilderBody(c, schema) ==
    Configure(c, RouteBuilder_body(This(c), schema),
              ConfigCall("body", 0, schema, Undefined))
BuilderQuery(c, schema) ==
    Configure(c, RouteBuilder_query(This(c), schema),
              ConfigCall("query", 0, schema, Undefined))
BuilderParams(c, schema) ==
    Configure(c, RouteBuilder_params(This(c), schema),
              ConfigCall("params", 0, schema, Undefined))
BuilderResponse(c, status, schema) ==
    Configure(c, RouteBuilder_response(This(c), status, schema),
              ConfigCall("response", status, schema, Undefined))
BuilderUse(c, f) ==
    Configure(c, RouteBuilder_use(This(c), FnStep(f)),
              ConfigCall("use", 0, Undefined, f))

\* const steps = c.handler(fn)
BuilderHandler(c, f) ==
    /\ chain[c] # 0
    /\ LET steps == RouteBuilder_handler(This(c), FnStep(f))
           result == ResultArray(This(c), steps)
       IN  /\ built' = Append(built, steps)
           /\ builders' = [builders EXCEPT ![chain[c]] = result.builder]
           /\ builtAt' = Append(builtAt,
                             [via |-> c, fn |-> f, at |-> Len(configLog),
                              lastVia |-> lastVia, live |-> result.live])
    /\ builtFrom' = Append(builtFrom, This(c))
    /\ UNCHANGED <<calls, chain, configLog, lastVia>>
    /\ UNCHANGED <<buildResult, routeVars, routerVars, requestVars,
                   flightVars>>

\* steps.build(), as in router.post(path, ...steps.build())
Build(j) ==
    /\ buildResult' = Append(buildResult,
                         [of |-> j] @@ CallMember(built[j], "build"))
    /\ UNCHANGED <<built, builtFrom, builtAt, routeVars, builderVars,
                   routerVars, requestVars, flightVars>>

\* router.<method>(path, ...handlers) on the typed router: the wrapper stored
\* under that key runs
Register(method, path, handlers) ==
    /\ router' = router \o wrap(createTypedRouter[method], path, handlers)
    /\ wrapCalls' = Append(wrapCalls,
                       [method |-> method, path |-> path, args |-> handlers])
    /\ defs' = [i \in DOMAIN defs |->
                   IF \E k \in DOMAIN handlers :
                         handlers[k] = DefinitionArg(defs[i])
                   THEN Spread(defs[i]) ELSE defs[i]]
    /\ UNCHANGED <<routeArgs, builderVars, builtVars, requestVars, flightVars>>

\* Express starts dispatching a request that matches registered route r
Receive(r, raw) ==
    /\ request.state # "running"
    /\ handled < MaxRequests
    /\ request' = NewRequest(r, raw)
    /\ handled' = handled + 1
    /\ UNCHANGED <<routeVars, builderVars, builtVars, routerVars, flightVars>>

CurrentStep == Stack(request)[request.idx]

\* Express calls the validation middleware at the head of the remaining stack
StepValidation ==
    /\ request.state = "running"
    /\ CurrentStep.kind = "validation"
    /\ request' = Dispatch(request,
                     createValidationMiddleware(CurrentStep.schemas,
                                                request.idx, request.req))
    /\ UNCHANGED <<routeVars, builderVars, builtVars, routerVars, handled,
                   flightVars>>

\* Express calls a user handler
StepHandler(status, body) ==
    /\ request.state = "running"
    /\ CurrentStep.kind = "fn" /\ CurrentStep.fn = "handler"
    /\ request' = Dispatch(request,
                     RunHandler(request.idx, request.req, status, body))
    /\ UNCHANGED <<routeVars, builderVars, builtVars, routerVars, handled,
                   flightVars>>

\* Express calls a custom middleware
StepMiddleware ==
    /\ request.state = "running"
    /\ CurrentStep.kind = "fn" /\ CurrentStep.fn = "mw"
    /\ request' = Dispatch(request, RunMiddleware(request.idx, request.req))
    /\ UNCHANGED <<routeVars, builderVars, builtVars, routerVars, handled,
                   flightVars>>

\* the error list the latest call of route r's validation step ended with
Left(r) == IF r \in DOMAIN leftBy THEN leftBy[r] ELSE <<>>

\* the stack entry Express calls next for flight f
CurrentStepOf(f) == Stack(flights[f])[flights[f].idx]

\* Express starts dispatching, as flight f, a request that matches route r
ReceiveOn(f, r, raw) ==
    /\ flights[f].state = "idle"
    /\ flights' = [flights EXCEPT ![f] = NewRequest(r, raw)]
    /\ UNCHANGED <<leftBy, routeVars, builderVars, builtVars, routerVars,
                   requestVars>>

\* Express calls the validation middleware for flight f
StepValidationOn(f) ==
    /\ flights[f].state = "running"
    /\ CurrentStepOf(f).kind = "validation"
    /\ LET rq == flights[f]
           inv == validationHandler(CurrentStepOf(f).schemas, rq.idx, rq.req,
                                    Left(rq.route))
       IN  /\ flights' = [flights EXCEPT ![f] = Dispatch(rq, inv)]
           /\ leftBy' = (rq.route :> inv.errors) @@ leftBy
    /\ UNCHANGED <<routeVars, builderVars, builtVars, routerVars, requestVars>>

\* Express calls a user handler for flight f
StepHandlerOn(f, status, body) ==
    /\ flights[f].state = "running"
    /\ CurrentStepOf(f).kind = "fn" /\ CurrentStepOf(f).fn = "handler"
    /\ flights' = [flights EXCEPT ![f] =
                      Dispatch(flights[f],
                               RunHandler(flights[f].idx, flights[f].req,
                                          status, body))]
    /\ UNCHANGED <<leftBy, routeVars, builderVars, builtVars, routerVars,
                   requestVars>>

\* the application of the validation tests: one route object, one handler()
\* call, one registration
Next ==
    \/ \E schemas \in SchemaSets : NoRouteObject /\ Route(schemas)
    \/ NoRouteObject /\ TypedRoute
    \/ \E schema \in BodySchemas :
          Budget("a", MaxBuilderCalls) /\ BuilderBody("a", schema)
    \/ \E schema \in QuerySchemas :
          Budget("a", MaxBuilderCalls) /\ BuilderQuery("a", schema)
    \/ \E schema \in ParamsSchemas :
          Budget("a", MaxBuilderCalls) /\ BuilderParams("a", schema)
    \/ \E status \in ResponseStatusChoices, schema \in ResponseSchemaChoices :
          Budget("a", MaxBuilderCalls) /\ BuilderResponse("a", status, schema)
    \/ Budget("a", MaxBuilderCalls) /\ BuilderUse("a", "mw")
    \/ built = <<>> /\ BuilderHandler("a", "handler")
    \/ \E method \in RegisteredMethods, path \in Paths, handlers \in ArgLists :
          router = <<>> /\ Register(method, path, handlers)
    \/ \E r \in DOMAIN router, raw \in RawRequests : Receive(r, raw)
    \/ StepValidation
    \/ \E status \in Statuses, body \in HandlerBodies : StepHandler(status, body)
    \/ StepMiddleware

Spec == Init /\ [][Next]_vars

-----------------------------------------------------------------------------
(* Vocabulary of the properties *)

Range(seq) == {seq[k] : k \in DOMAIN seq}

InOrder(S) == SelectSeq(<<"body", "query", "params">>, LAMBDA l : l \in S)

Configured(schemas) == {l \in Locations : schemas[l] # Undefined}

\* the configured locations whose value the schema rejects
Failing(schemas, fields) ==
    {l \in Configured(schemas) : ~safeParse(schemas[l], fields[l]).success}

Canonical(schemas, fields, l) == safeParse(schemas[l], fields[l]).data

StepOf(inv) == Stack(request)[inv.step]

\* the calls of validation steps, and of user handlers, made for the request
ValidationCalls ==
    {i \in DOMAIN request.trace : StepOf(request.trace[i]).kind = "validation"}
HandlerCalls ==
    {i \in DOMAIN request.trace : StepOf(request.trace[i]).fn = "handler"}

LocationsOf(entries) == [k \in DOMAIN entries |-> entries[k].location]

\* the request is no longer being dispatched
Finished == request.state \in {"responded", "unhandled", "hung", "errored"}

\* the slot of a RouteSchemas object for a location
Slot(ss, l) ==
    CASE l = "body" -> ss.body [] l = "query" -> ss.query [] l = "params" -> ss.params

-----------------------------------------------------------------------------
(* Properties *)

\* C1: when at least one configured location fails its schema, the validation
\* step never calls next(), no later step runs, the response is a single 400,
\* and details holds exactly one entry per failing location, each with a
\* nonempty issues list.
C1_RejectedNeverReachesHandler ==
    \A i \in ValidationCalls :
        LET inv == request.trace[i]
            failing == Failing(StepOf(inv).schemas, inv.before)
        IN  failing # {} =>
              /\ inv.nexts = <<>>
              /\ Len(request.trace) = i
              /\ HandlerCalls = {}
              /\ request.state = "responded"
              /\ Len(request.res) = 1
              /\ request.res[1].status = 400
              /\ DOMAIN request.res[1].body = {"error", "details"}
              /\ LET details == request.res[1].body.details
                 IN  /\ Len(details) = Cardinality(failing)
                     /\ Range(LocationsOf(details)) = failing
                     /\ \A k \in DOMAIN details : details[k].issues # <<>>

C1_Witness ==
    \E i \in ValidationCalls :
        /\ Cardinality(Failing(StepOf(request.trace[i]).schemas,
                               request.trace[i].before)) = 2
        /\ Cardinality(Configured(StepOf(request.trace[i]).schemas)) = 3
        /\ request.state = "responded"

\* C2: when every configured location satisfies its schema, the validation
\* step calls next() exactly once, the handler runs exactly once, and every
\* configured field has been assigned the schema's output for its original
\* value (also when that output equals the original) by the time a later
\* step reads it.
C2_ValidPassesCanonicalized ==
    \A i \in ValidationCalls :
        LET inv == request.trace[i]
            schemas == StepOf(inv).schemas
        IN  Failing(schemas, inv.before) = {} =>
              /\ inv.nexts = <<Undefined>>
              /\ inv.sends = <<>>
              /\ \A l \in Configured(schemas) :
                    /\ inv.after[l] = Canonical(schemas, inv.before, l)
                    /\ l \in Range(inv.written)
                    /\ \A j \in DOMAIN request.trace :
                          j > i => request.trace[j].before[l]
                                     = Canonical(schemas, inv.before, l)
              /\ Finished => Cardinality(HandlerCalls) = 1

C2_Witness ==
    \E i \in ValidationCalls :
        LET inv == request.trace[i]
        IN  /\ Configured(StepOf(inv).schemas) = Locations
            /\ Failing(StepOf(inv).schemas, inv.before) = {}
            /\ \E l \in Locations : inv.after[l] # inv.before[l]
            /\ \E l \in Locations : inv.after[l] = inv.before[l]
            /\ HandlerCalls # {}

\* C3: the validation step runs the configured schemas in the order body,
\* query, params, goes on after a failure, and reports all failing locations
\* in one response whose details are in that same order.
C3_FixedOrderAllReported ==
    \A i \in ValidationCalls :
        LET inv == request.trace[i]
            schemas == StepOf(inv).schemas
            failing == Failing(schemas, inv.before)
        IN  /\ LocationsOf(inv.parsed) = InOrder(Configured(schemas))
            /\ failing # {} =>
                  /\ Len(inv.sends) = 1
                  /\ DOMAIN inv.sends[1].body = {"error", "details"}
                  /\ LocationsOf(inv.sends[1].body.details) = InOrder(failing)

C3_Witness ==
    \E i \in ValidationCalls :
        /\ Failing(StepOf(request.trace[i]).schemas, request.trace[i].before)
             = Locations
        /\ Len(request.res) = 1

\* C4: the 400 body is exactly {error, details} with error "Validation
\* failed"; every entry is {location, issues} with a location among body,
\* query, params and the issues safeParse returned for it, unchanged.
C4_ErrorBodyShape ==
    \A i \in ValidationCalls :
        LET inv == request.trace[i]
            schemas == StepOf(inv).schemas
        IN  \A n \in DOMAIN inv.sends :
              /\ inv.sends[n].status = 400
              /\ DOMAIN inv.sends[n].body = {"error", "details"}
              /\ inv.sends[n].body.error = "Validation failed"
              /\ \A k \in DOMAIN inv.sends[n].body.details :
                    LET entry == inv.sends[n].body.details[k]
                    IN  /\ DOMAIN entry = {"location", "issues"}
                        /\ entry.location \in Locations
                        /\ schemas[entry.location] # Undefined
                        /\ entry.issues
                             = safeParse(schemas[entry.location],
                                         inv.before[entry.location]).issues

C4_Witness ==
    \E n \in DOMAIN request.res :
        /\ request.res[n].status = 400
        /\ \E k \in DOMAIN request.res[n].body.details :
              Len(request.res[n].body.details[k].issues) = 2

\* C5: a location with no configured schema is never parsed, never
\* assigned, keeps its value and has no entry in details.
C5_UnconfiguredInert ==
    \A i \in ValidationCalls :
        LET inv == request.trace[i]
            schemas == StepOf(inv).schemas
        IN  \A l \in Locations \ Configured(schemas) :
              /\ l \notin Range(LocationsOf(inv.parsed))
              /\ l \notin Range(inv.written)
              /\ inv.after[l] = inv.before[l]
              /\ \A n \in DOMAIN inv.sends :
                    l \notin Range(LocationsOf(inv.sends[n].body.details))

C5_Witness ==
    \E i \in ValidationCalls :
        LET inv == request.trace[i]
            schemas == StepOf(inv).schemas
        IN  /\ schemas["body"] # Undefined
            /\ schemas["query"] = Undefined
            /\ ~safeParse(schemas["body"], inv.before["query"]).success
            /\ inv.nexts # <<>>

\* C6: a configured location that fails its schema keeps the raw value it
\* had before the validation step ran and is not assigned.
C6_FailedFieldKept ==
    \A i \in ValidationCalls :
        LET inv == request.trace[i]
            schemas == StepOf(inv).schemas
        IN  \A l \in Failing(schemas, inv.before) :
              /\ inv.after[l] = inv.before[l]
              /\ l \notin Range(inv.written)
              /\ request.trace[Len(request.trace)].after[l] = inv.before[l]

C6_Witness ==
    \E i \in ValidationCalls :
        LET inv == request.trace[i]
        IN  \E l \in Failing(StepOf(inv).schemas, inv.before) :
              /\ inv.before[l] # Undefined
              /\ request.req[l] = inv.before[l]

\* C7: every call of the validation step either sends exactly one response
\* (status 400) and does not call next(), or calls next() exactly once with
\* no argument and sends nothing.
C7_RespondXorNext ==
    \A i \in ValidationCalls :
        LET inv == request.trace[i]
        IN  \/ /\ Len(inv.sends) = 1
               /\ inv.sends[1].status = 400
               /\ inv.nexts = <<>>
            \/ /\ inv.sends = <<>>
               /\ inv.nexts = <<Undefined>>

C7_Witness ==
    \E i \in ValidationCalls :
        /\ request.trace[i].sends = <<>>
        /\ request.trace[i].nexts = <<Undefined>>
        /\ handled = 2

\* C8: a definition returned by route(schemaSet) holds exactly one step, a
\* validation step carrying the body, query and params schemas of schemaSet,
\* when at least one of the three is present, and no step otherwise.
C8_RouteStepSequence ==
    \A i \in DOMAIN defs :
        LET present == {l \in Locations : Slot(routeArgs[i], l) # Undefined}
            steps == defs[i].middleware
        IN  IF present # {}
            THEN /\ Len(steps) = 1
                 /\ steps[1].kind = "validation"
                 /\ \A l \in Locations :
                       steps[1].schemas[l] = Slot(routeArgs[i], l)
            ELSE steps = <<>>

C8_Witness ==
    \E i \in DOMAIN defs :
        /\ routeArgs[i].response.defined
        /\ \A l \in Locations : Slot(routeArgs[i], l) = Undefined
        /\ defs[i].middleware = <<>>
        /\ request.state = "responded"

\* the schema the route's source (the definition, or the builder when
\* handler(fn) was called) configures for a location
SourceSchema(l) ==
    IF defs # <<>> THEN Slot(routeArgs[1], l)
    ELSE CASE l = "body"   -> builtFrom[1].bodySchema
           [] l = "query"  -> builtFrom[1].querySchema
           [] l = "params" -> builtFrom[1].paramsSchema

\* C9: no schema of the response map is ever run: every safeParse call made
\* for a request runs the schema configured for body, query or params against
\* that field, and the response the client gets is exactly what the handler
\* sent, whatever its status and body.
C9_ResponseSchemasNeverRun ==
    /\ \A i \in DOMAIN request.trace :
          LET inv == request.trace[i]
          IN  \A k \in DOMAIN inv.parsed :
                /\ inv.parsed[k].location \in Locations
                /\ inv.parsed[k].schema = SourceSchema(inv.parsed[k].location)
                /\ inv.parsed[k].value = inv.before[inv.parsed[k].location]
    /\ \A i \in HandlerCalls :
          /\ request.res = request.trace[i].sends
          /\ \A j \in DOMAIN request.trace : j > i => request.trace[j].parsed = <<>>

C9_Witness ==
    /\ builders # <<>>
    /\ builtFrom # <<>>
    /\ builtFrom[1].responseSchemas[201] = "email"
    /\ builtFrom[1].bodySchema = Undefined
    /\ ValidationCalls # {}
    /\ \E i \in HandlerCalls :
          /\ request.trace[i].sends[1].status = 201
          /\ ~safeParse("email", request.trace[i].sends[1].body.data).success
          /\ request.res = request.trace[i].sends

\* the fields a route definition exposes, as route() was given and built them
ExposesOriginal ==
    \A i \in DOMAIN defs :
        /\ defs[i].schemas = routeArgs[i]
        /\ defs[i].brand = "RouteDefinition"
        /\ {"schemas", "middleware", "brand"} \subseteq DOMAIN defs[i]

\* C10: a definition exposes the schema set route() was given (response map
\* included), its step sequence and the marker 'RouteDefinition', and no
\* registration or request changes any of them afterwards.
C10_DefinitionImmutable ==
    /\ []ExposesOriginal
    /\ [][\A i \in DOMAIN defs : defs'[i] = defs[i]]_vars

C10_Witness ==
    /\ defs # <<>>
    /\ defs[1].schemas.response.defined
    /\ defs[1].schemas.body # Undefined
    /\ router # <<>>
    /\ handled = 2
    /\ request.state = "responded"

-----------------------------------------------------------------------------
(* Registration through the typed router with free argument lists:         *)
(* SpecWrap.  The application builds up to MaxDefinitions distinct route   *)
(* definitions and makes one wrapped call whose arguments are any list of  *)
(* up to MaxArgs values: definitions, functions and values that are        *)
(* neither.                                                                *)

\* route definitions the application has at hand
MaxDefinitions == 2
\* arguments after the path in one registration call
MaxArgs == 4

\* { body: email }, { query: page } and { response: { 201: email } }
WrapSchemaSets ==
    {ss \in SchemaSets :
        \/ ss.body = "email" /\ ss.query = Undefined /\ ss.params = Undefined
           /\ ~ss.response.defined
        \/ ss.body = Undefined /\ ss.query = "page" /\ ss.params = Undefined
           /\ ~ss.response.defined
        \/ ss.body = Undefined /\ ss.query = Undefined /\ ss.params = Undefined
           /\ ss.response.defined}

\* the values that are neither a route definition nor a function
JunkArgs ==
    {NumberArg, NullArg, PlainObjectArg,
     ArrayArg(<<FnStep("mw"), FnStep("handler")>>)}

WrapArgs ==
    {DefinitionArg(defs[i]) : i \in DOMAIN defs}
    \cup {FunctionArg(FnStep(f)) : f \in Fns}
    \cup JunkArgs

WrapArgLists == UNION {[1..n -> WrapArgs] : n \in 0..MaxArgs}

WrapMethods == {"get"}

NextWrap ==
    \/ \E schemas \in WrapSchemaSets :
          /\ Len(defs) < MaxDefinitions
          /\ schemas \notin Range(routeArgs)
          /\ Route(schemas)
    \/ /\ wrapCalls = <<>>
       /\ \E method \in WrapMethods, path \in Paths, handlers \in WrapArgLists :
             Register(method, path, handlers)

SpecWrap == Init /\ [][NextWrap]_vars

\* the left-to-right concatenation of a sequence of sequences
RECURSIVE Concat(_)
Concat(seqs) ==
    IF seqs = <<>> THEN <<>>
    ELSE Concat(SubSeq(seqs, 1, Len(seqs) - 1)) \o seqs[Len(seqs)]

\* what one argument contributes to the registered list: a definition its
\* whole step sequence, a function itself
Contribution(arg) ==
    IF arg.typeof = "function" THEN <<arg.step>> ELSE arg.middleware

\* the call the underlying router received for the k-th wrapped call
Registered(k) == router[k]

-----------------------------------------------------------------------------
\* C11: a wrapped registration preserves the order of its arguments: when
\* every argument is a route definition or a function, the list handed to the
\* underlying router is the left-to-right concatenation of the arguments'
\* contributions, (path, A, B, C, D) giving [stepsOf(A)..., B, stepsOf(C)..., D].
C11_ArgumentOrderPreserved ==
    \A k \in DOMAIN wrapCalls :
        LET args == wrapCalls[k].args
        IN  (\A i \in DOMAIN args : args[i] \notin JunkArgs)
            => /\ k \in DOMAIN router
               /\ Registered(k).handlers
                    = Concat([i \in DOMAIN args |-> Contribution(args[i])])

\* a call (path, A, B, C, D) with two validating definitions A and C around
\* the function B, D last, registered as [stepsOf(A), B, stepsOf(C), D]
C11_Witness ==
    \E k \in DOMAIN wrapCalls :
        LET args == wrapCalls[k].args
        IN  /\ Len(args) = 4
            /\ isRouteDefinition(args[1]) /\ isRouteDefinition(args[3])
            /\ args[1].middleware # <<>> /\ args[3].middleware # <<>>
            /\ args[1] # args[3]
            /\ args[2] = FunctionArg(FnStep("mw"))
            /\ args[4] = FunctionArg(FnStep("handler"))
            /\ Registered(k).handlers
                 = args[1].middleware \o <<FnStep("mw")>>
                   \o args[3].middleware \o <<FnStep("handler")>>

-----------------------------------------------------------------------------
(* Requests through a stack registered from a free mix of one definition   *)
(* and plain functions: SpecOrder.                                         *)

OrderArgs ==
    {DefinitionArg(defs[i]) : i \in DOMAIN defs}
    \cup {FunctionArg(FnStep(f)) : f \in Fns}

OrderArgLists == UNION {[1..n -> OrderArgs] : n \in 0..MaxArgs}

\* requests that differ in the body only
OrderRequests ==
    {raw \in RawRequests : raw.query = Undefined /\ raw.params = Undefined}

NextOrder ==
    \/ \E schemas \in WrapSchemaSets : NoRouteObject /\ Route(schemas)
    \/ /\ wrapCalls = <<>>
       /\ \E method \in WrapMethods, path \in Paths, handlers \in OrderArgLists :
             Register(method, path, handlers)
    \/ \E r \in DOMAIN router, raw \in OrderRequests : Receive(r, raw)
    \/ StepValidation
    \/ \E status \in Statuses, body \in HandlerBodies : StepHandler(status, body)
    \/ StepMiddleware

SpecOrder == Init /\ [][NextOrder]_vars

\* the number of registered steps contributed by the arguments before the i-th
Offset(args, i) ==
    Len(Concat([j \in 1..(i - 1) |-> Contribution(args[j])]))

\* the arguments that are definitions carrying a validation step, and those
\* that are plain functions
ValidatingArgs(args) ==
    {i \in DOMAIN args : isRouteDefinition(args[i]) /\ args[i].middleware # <<>>}
FunctionArgs(args) == {j \in DOMAIN args : args[j].typeof = "function"}

\* the positions of a step in the list registered by the k-th call
PositionsOf(k, step) ==
    {p \in DOMAIN Registered(k).handlers : Registered(k).handlers[p] = step}

\* the steps Express has called for the request, in call order
CalledSteps == [t \in DOMAIN request.trace |-> request.trace[t].step]

-----------------------------------------------------------------------------
\* C12 as stated: when a route definition appears among the arguments of a
\* wrapped call, its validation step precedes, in the registered list, every
\* plain function given in that call, and for every request it has run
\* before any of those functions runs.
C12_ValidationBeforeEveryFunction ==
    \A k \in DOMAIN wrapCalls :
        LET args == wrapCalls[k].args
        IN  \A i \in ValidatingArgs(args), j \in FunctionArgs(args) :
              /\ \E p \in PositionsOf(k, args[i].middleware[1]) :
                    \A q \in PositionsOf(k, args[j].step) : p < q
              /\ request.route = k
                 => \A t \in DOMAIN CalledSteps :
                       Registered(k).handlers[CalledSteps[t]] = args[j].step
                       => \E u \in 1..(t - 1) :
                             Registered(k).handlers[CalledSteps[u]]
                               = args[i].middleware[1]

\* C12 (amended): the validation step of a definition stands in the
\* registered list at the place of the definition among the arguments: it
\* precedes every plain function given after the definition in that call, and
\* for every request it has run before any of those functions runs; a
\* function given before the definition keeps its place before the validation
\* step.
C12_ValidationBeforeLaterFunctions ==
    \A k \in DOMAIN wrapCalls :
        LET args == wrapCalls[k].args
            steps == Registered(k).handlers
        IN  \A i \in ValidatingArgs(args), j \in FunctionArgs(args) :
              LET v == Offset(args, i) + 1
                  f == Offset(args, j) + 1
              IN  /\ v \in DOMAIN steps /\ steps[v] = args[i].middleware[1]
                  /\ f \in DOMAIN steps /\ steps[f] = args[j].step
                  /\ i < j => v < f
                  /\ j < i => f < v
                  /\ (i < j /\ request.route = k)
                     => \A t \in DOMAIN CalledSteps :
                           CalledSteps[t] = f
                           => \E u \in 1..(t - 1) : CalledSteps[u] = v

\* a request passed the validation step of (path, mw, A, handler) and reached
\* the handler given after A: mw ran first, then the validation, then it
C12_Witness ==
    /\ request.route \in DOMAIN wrapCalls
    /\ LET args == wrapCalls[request.route].args
       IN  /\ Len(args) = 3
           /\ args[1] = FunctionArg(FnStep("mw"))
           /\ 2 \in ValidatingArgs(args)
           /\ args[3] = FunctionArg(FnStep("handler"))
    /\ CalledSteps = <<1, 2, 3>>
    /\ request.state = "responded"

-----------------------------------------------------------------------------
(* One route definition registered again and again: SpecReuse.  The        *)
(* application makes up to MaxRegistrations wrapped calls, on any of the   *)
(* five methods and on two paths, each passing the same definition.        *)

\* wrapped registration calls in one behaviour
MaxRegistrations == 3

ReusePaths == {"/items", "/items/:id"}

\* (path, A, handler) and (path, mw, A, handler)
ReuseArgLists ==
    {<<DefinitionArg(defs[i]), FunctionArg(FnStep("handler"))>> : i \in DOMAIN defs}
    \cup {<<FunctionArg(FnStep("mw")), DefinitionArg(defs[i]),
            FunctionArg(FnStep("handler"))>> : i \in DOMAIN defs}

NextReuse ==
    \/ \E schemas \in WrapSchemaSets : NoRouteObject /\ Route(schemas)
    \/ /\ Len(wrapCalls) < MaxRegistrations
       /\ \E method \in Methods, path \in ReusePaths, handlers \in ReuseArgLists :
             Register(method, path, handlers)

SpecReuse == Init /\ [][NextReuse]_vars

\* the slice of the k-th registered list contributed by the a-th argument
Spliced(k, a) ==
    LET args == wrapCalls[k].args
    IN  SubSeq(Registered(k).handlers, Offset(args, a) + 1,
               Offset(args, a) + Len(Contribution(args[a])))

-----------------------------------------------------------------------------
\* C13: the wrapper never reorders or mutates a definition's step sequence:
\* after any sequence of wrapped registration calls that use the same
\* definition, on any paths and methods, the definition's sequence is the one
\* route() built, and every such call spliced those same steps in that order.
C13_DefinitionStepsUntouched ==
    \A i \in DOMAIN defs :
        LET original == route(routeArgs[i]).middleware
        IN  /\ defs[i].middleware = original
            /\ \A k \in DOMAIN wrapCalls :
                  \A a \in DOMAIN wrapCalls[k].args :
                     wrapCalls[k].args[a].typeof = "object"
                     => /\ wrapCalls[k].args[a].middleware = original
                        /\ Spliced(k, a) = original

\* three registrations of one validating definition, on different methods
\* and paths, each with the validation step route() built
C13_Witness ==
    /\ Len(wrapCalls) = 3
    /\ defs[1].middleware # <<>>
    /\ wrapCalls[1].method # wrapCalls[2].method
    /\ wrapCalls[1].path # wrapCalls[3].path
    /\ \A k \in 1..3 :
          \E a \in DOMAIN wrapCalls[k].args :
             /\ wrapCalls[k].args[a] = DefinitionArg(defs[1])
             /\ Spliced(k, a) = route(routeArgs[1]).middleware

-----------------------------------------------------------------------------
\* C15: each call to one of the five wrapped methods calls the underlying
\* router's original registration function of that same method exactly once,
\* with the path unchanged and the fully flattened list, the router being the
\* receiver; no other method's function is called and the wrapper is not
\* entered again.
C15_OneUnderlyingCallPerWrappedCall ==
    /\ Len(router) = Len(wrapCalls)
    /\ \A k \in DOMAIN wrapCalls :
          /\ wrapCalls[k].method \in Methods
          /\ Registered(k).method = wrapCalls[k].method
          /\ Registered(k).receiver = "router"
          /\ Registered(k).path = wrapCalls[k].path
          /\ Registered(k).handlers = flatten(wrapCalls[k].args)

\* put, patch and delete were called on the typed router, one after the
\* other, and the underlying router received exactly those three calls
C15_Witness ==
    /\ Len(wrapCalls) = 3
    /\ <<wrapCalls[1].method, wrapCalls[2].method, wrapCalls[3].method>>
         = <<"put", "patch", "delete">>
    /\ <<router[1].method, router[2].method, router[3].method>>
         = <<"put", "patch", "delete">>
    /\ Len(router) = 3
    /\ \A k \in 1..3 : Len(router[k].handlers) >= 2

-----------------------------------------------------------------------------
\* C14: an argument that is neither a route definition nor a function (a
\* number, null, a plain object without the marker, an array of handlers
\* passed unspread) is silently dropped: the call goes through to the
\* underlying router without an error, and the remaining arguments are
\* registered in their order as if the dropped one had not been given.
C14_OtherArgumentsDropped ==
    \A k \in DOMAIN wrapCalls :
        LET args == wrapCalls[k].args
            kept == SelectSeq(args, LAMBDA a : a \notin JunkArgs)
        IN  /\ k \in DOMAIN router
            /\ Len(router) = Len(wrapCalls)
            /\ Registered(k).path = wrapCalls[k].path
            /\ Registered(k).handlers
                 = Concat([i \in DOMAIN kept |-> Contribution(kept[i])])

\* (path, A, 42, null, handler) and the like: a validating definition, two
\* different dropped values, then the handler, registered as [stepsOf(A),
\* handler]
C14_Witness ==
    \E k \in DOMAIN wrapCalls :
        LET args == wrapCalls[k].args
        IN  /\ Len(args) = 4
            /\ isRouteDefinition(args[1]) /\ args[1].middleware # <<>>
            /\ args[2] \in JunkArgs /\ args[3] \in JunkArgs
            /\ args[2] # args[3]
            /\ args[4] = FunctionArg(FnStep("handler"))
            /\ Registered(k).handlers
                 = args[1].middleware \o <<FnStep("handler")>>

-----------------------------------------------------------------------------
(* The underlying router's own registration (Express, the environment):    *)
(* router.METHOD(path, ...callbacks) takes functions and arrays of         *)
(* functions, and registers the functions in order, arrays flattened.      *)

ExpressAccepts(arg) == arg.typeof = "function" \/ arg.isArray

ExpressRegisters(args) ==
    Concat([i \in DOMAIN args |->
               IF args[i].isArray THEN args[i].elements ELSE <<args[i].step>>])

\* C16 as stated: the typed router is a drop-in for the underlying router: a
\* wrapped call whose arguments are all values the underlying router accepts
\* as handlers, none of them a route definition, registers exactly the steps,
\* in the same order, that the same call on the underlying router registers.
C16_DropInForPlainHandlers ==
    \A k \in DOMAIN wrapCalls :
        LET args == wrapCalls[k].args
        IN  (\A i \in DOMAIN args :
                ExpressAccepts(args[i]) /\ ~isRouteDefinition(args[i]))
            => Registered(k).handlers = ExpressRegisters(args)

-----------------------------------------------------------------------------
(* The fluent builder on its own: SpecBuilder.  The application creates    *)
(* one builder, keeps two references to it, makes up to MaxChainCalls      *)
(* configuration calls through either reference, calls handler(fn) once    *)
(* through either, and calls build() on what handler(fn) returned.         *)

\* configuration calls made on the builder in one behaviour
MaxChainCalls == 3

\* schemas passed to response(): two, so that a status can be overwritten
BuilderResponseSchemas == {"email", "page"}

\* functions passed to use(): two, so that their order shows
BuilderMiddlewares == {"mw", "auth"}

NextBuilder ==
    \/ NoRouteObject /\ TypedRoute
    \/ \E c \in Chains, schema \in BodySchemas :
          Budget(c, MaxChainCalls) /\ BuilderBody(c, schema)
    \/ \E c \in Chains, schema \in QuerySchemas :
          Budget(c, MaxChainCalls) /\ BuilderQuery(c, schema)
    \/ \E c \in Chains, schema \in ParamsSchemas :
          Budget(c, MaxChainCalls) /\ BuilderParams(c, schema)
    \/ \E c \in Chains, status \in Statuses, schema \in BuilderResponseSchemas :
          Budget(c, MaxChainCalls) /\ BuilderResponse(c, status, schema)
    \/ \E c \in Chains, f \in BuilderMiddlewares :
          Budget(c, MaxChainCalls) /\ BuilderUse(c, f)
    \/ \E c \in Chains : built = <<>> /\ BuilderHandler(c, "handler")
    \/ \E j \in DOMAIN built : buildResult = <<>> /\ Build(j)

SpecBuilder == Init /\ [][NextBuilder]_vars

\* the configuration calls made before the j-th handler(fn) call
LogBefore(j) == SubSeq(configLog, 1, builtAt[j].at)

\* the schema of the last call of op (and status) in a log, if any
LastSchema(log, op, status) ==
    LET at == {n \in DOMAIN log : log[n].op = op /\ log[n].status = status}
    IN  IF at = {} THEN Undefined
        ELSE log[CHOOSE n \in at : \A m \in at : m <= n].schema

\* the functions passed to use(), in call order
UsedIn(log) ==
    LET uses == SelectSeq(log, LAMBDA call : call.op = "use")
    IN  [n \in DOMAIN uses |-> FnStep(uses[n].fn)]

\* the request schemas set by a log's body(), query() and params() calls
SetIn(log) == [l \in Locations |-> LastSchema(log, l, 0)]

-----------------------------------------------------------------------------
\* C17: handler(fn) returns a flat sequence: the validation step first if and
\* only if body, query or params was set, then every use() middleware in the
\* order added, then fn last; a builder with only response(...) calls yields
\* exactly [fn].
C17_HandlerSequence ==
    \A j \in DOMAIN built :
        LET log == LogBefore(j)
            validation == IF SetIn(log) = NoSchemas THEN <<>>
                          ELSE <<ValidationStep(SetIn(log))>>
        IN  /\ built[j] = validation \o UsedIn(log) \o <<FnStep(builtAt[j].fn)>>
            /\ (\A n \in DOMAIN log : log[n].op = "response")
               => built[j] = <<FnStep(builtAt[j].fn)>>

\* use(mw), body(email), use(auth), then handler(fn): validation, mw, auth, fn
C17_Witness ==
    /\ Len(built) = 1
    /\ [n \in DOMAIN LogBefore(1) |-> LogBefore(1)[n].op] = <<"use", "body", "use">>
    /\ built[1] = <<ValidationStep([NoSchemas EXCEPT !.body = "email"]),
                    FnStep("mw"), FnStep("auth"), FnStep("handler")>>

-----------------------------------------------------------------------------
\* C18: response(status, schema) is additive: after any sequence of calls the
\* builder's response map holds, for each status that was passed, the schema
\* of the last call for that status, and nothing for the other statuses; a
\* call for one status leaves the entries of the others as they were.
C18_ResponseMapAdditive ==
    \A i \in DOMAIN builders :
        \A status \in Statuses :
            builders[i].responseSchemas[status]
              = LastSchema(configLog, "response", status)

\* response(200, email), response(201, page), response(200, page): the map
\* holds page for 200 and still page for 201
C18_Witness ==
    /\ Len(configLog) = 3
    /\ \A n \in 1..3 : configLog[n].op = "response"
    /\ <<configLog[1].status, configLog[2].status, configLog[3].status>>
         = <<200, 201, 200>>
    /\ <<configLog[1].schema, configLog[2].schema, configLog[3].schema>>
         = <<"email", "page", "page">>
    /\ builders[1].responseSchemas = [NoResponses EXCEPT ![200] = "page",
                                                         ![201] = "page"]

-----------------------------------------------------------------------------
\* C19: the builder is one mutable accumulator: every configuration call
\* changes it in place and returns that same builder, so two chains continued
\* from one reference are not independent: they stay on one object that
\* holds the calls of both, and the sequence handler() returns for one chain
\* shows the configuration calls made on the other.
C19_OneMutableAccumulator ==
    /\ Len(builders) <= 1
    /\ \A c \in Chains : chain[c] = Len(builders)
    /\ \A i \in DOMAIN builders :
          /\ builders[i].middlewares = UsedIn(configLog)
          /\ [l \in Locations |->
                CASE l = "body"   -> builders[i].bodySchema
                  [] l = "query"  -> builders[i].querySchema
                  [] l = "params" -> builders[i].paramsSchema] = SetIn(configLog)
    /\ \A j \in DOMAIN built :
          \A n \in DOMAIN UsedIn(LogBefore(j)) :
             \E k \in DOMAIN built[j] : built[j][k] = UsedIn(LogBefore(j))[n]

\* reference a made the call use(auth), and handler(fn) called through
\* reference b right after returns a sequence holding auth
C19_Witness ==
    /\ Len(built) = 1
    /\ builtAt[1].via = "b"
    /\ builtAt[1].lastVia = "a"
    /\ builtAt[1].at >= 1
    /\ configLog[builtAt[1].at] = ConfigCall("use", 0, Undefined, "auth")
    /\ \E k \in DOMAIN built[1] : built[1][k] = FnStep("auth")

-----------------------------------------------------------------------------
\* C20 as stated: the value returned by handler(fn) offers a build()
\* operation whose result is the ordered step sequence to spread into a
\* registration call.
C20_BuildYieldsSteps ==
    \A r \in DOMAIN buildResult :
        /\ buildResult[r].threw = Undefined
        /\ buildResult[r].value = built[buildResult[r].of]

-----------------------------------------------------------------------------
\* one configuration call of a log made on builder fields b
Apply(b, call) ==
    CASE call.op = "body"     -> RouteBuilder_body(b, call.schema)
      [] call.op = "query"    -> RouteBuilder_query(b, call.schema)
      [] call.op = "params"   -> RouteBuilder_params(b, call.schema)
      [] call.op = "response" -> RouteBuilder_response(b, call.status, call.schema)
      [] call.op = "use"      -> RouteBuilder_use(b, FnStep(call.fn))

\* the builder after the calls of a log, made in the log's order
RECURSIVE Replay(_, _)
Replay(b, log) ==
    IF log = <<>> THEN b ELSE Replay(Apply(b, Head(log)), Tail(log))

\* the calls of a log arranged setters first: body, query, params, the
\* response calls, then the use calls, each group in its order in the log
SettersFirst(log) ==
    SelectSeq(log, LAMBDA call : call.op = "body")
    \o SelectSeq(log, LAMBDA call : call.op = "query")
    \o SelectSeq(log, LAMBDA call : call.op = "params")
    \o SelectSeq(log, LAMBDA call : call.op = "response")
    \o SelectSeq(log, LAMBDA call : call.op = "use")

\* C21: the configuration methods can be chained in any order: whatever the
\* interleaving of the body, query, params, response and use calls made
\* before handler(fn), the returned sequence is the one the same calls give
\* when made setters first, the use() calls keeping their order; the
\* validation step comes first also when use() was called before a setter.
C21_AnyChainingOrder ==
    \A j \in DOMAIN built :
        built[j] = RouteBuilder_handler(
                       Replay(typedRoute, SettersFirst(LogBefore(j))),
                       FnStep(builtAt[j].fn))

\* use(auth), params(digits), query(page), then handler(fn): the validation
\* step of query and params comes first, auth after it
C21_Witness ==
    /\ Len(built) = 1
    /\ LogBefore(1) = <<ConfigCall("use", 0, Undefined, "auth"),
                        ConfigCall("params", 0, "digits", Undefined),
                        ConfigCall("query", 0, "page", Undefined)>>
    /\ built[1] = <<ValidationStep([NoSchemas EXCEPT !.query = "page",
                                                     !.params = "digits"]),
                    FnStep("auth"), FnStep("handler")>>

-----------------------------------------------------------------------------
(* The same route assembled both ways, and requests in flight together:    *)
(* SpecFlights.  The application calls route(schemas), assembles a builder *)
(* from the same schemas, registers [definition, handler] as route 1 and   *)
(* the builder's sequence as route 2; Express dispatches two requests at   *)
(* the same time, each to either route, their steps interleaved.           *)

\* { body?: email, query?: page, params?: digits }
PairSchemaSets ==
    {ss \in SchemaSets :
        /\ ~ss.response.defined
        /\ ss.body \in BodySchemas \cup {Undefined}
        /\ ss.query \in QuerySchemas \cup {Undefined}
        /\ ss.params \in ParamsSchemas \cup {Undefined}}

\* requests whose every field is the string "2" or the string "a@b.co"
FlightRequests == [Locations -> {"s2", "sEmail"}]

\* what the handler of the two routes sends
FlightStatuses == {200}
FlightBodies == {"n1"}

\* the builder holds the request schemas route() was given
SameSchemas ==
    /\ defs # <<>> /\ chain["a"] # 0
    /\ This("a").bodySchema = routeArgs[1].body
    /\ This("a").querySchema = routeArgs[1].query
    /\ This("a").paramsSchema = routeArgs[1].params

NextFlights ==
    \/ \E schemas \in PairSchemaSets : defs = <<>> /\ Route(schemas)
    \/ defs # <<>> /\ builders = <<>> /\ TypedRoute
    \/ \E schema \in BodySchemas :
          /\ chain["a"] # 0 /\ built = <<>>
          /\ schema = routeArgs[1].body /\ This("a").bodySchema = Undefined
          /\ BuilderBody("a", schema)
    \/ \E schema \in QuerySchemas :
          /\ chain["a"] # 0 /\ built = <<>>
          /\ schema = routeArgs[1].query /\ This("a").querySchema = Undefined
          /\ BuilderQuery("a", schema)
    \/ \E schema \in ParamsSchemas :
          /\ chain["a"] # 0 /\ built = <<>>
          /\ schema = routeArgs[1].params /\ This("a").paramsSchema = Undefined
          /\ BuilderParams("a", schema)
    \/ built = <<>> /\ SameSchemas /\ BuilderHandler("a", "handler")
    \/ /\ router = <<>> /\ defs # <<>>
       /\ \E method \in WrapMethods, path \in Paths :
             Register(method, path, <<DefinitionArg(defs[1]),
                                      FunctionArg(FnStep("handler"))>>)
    \/ /\ Len(router) = 1 /\ built # <<>>
       /\ \E method \in WrapMethods, path \in Paths :
             Register(method, path,
                      [k \in DOMAIN built[1] |-> FunctionArg(built[1][k])])
    \/ \E f \in Flights, r \in DOMAIN router, raw \in FlightRequests :
          ReceiveOn(f, r, raw)
    \/ \E f \in Flights : StepValidationOn(f)
    \/ \E f \in Flights, status \in FlightStatuses, body \in FlightBodies :
          StepHandlerOn(f, status, body)

SpecFlights == Init /\ [][NextFlights]_vars

\* the sequence [steps of route(schemas)..., fn]
ViaRoute == defs[1].middleware \o <<FnStep("handler")>>

\* flights f and g carry the same request, f through route 1 (registered
\* from the definition) and g through route 2 (the builder's sequence)
SameRequestBothWays(f, g) ==
    /\ flights[f].route = 1 /\ flights[g].route = 2
    /\ flights[f].orig = flights[g].orig

-----------------------------------------------------------------------------
\* C22: the fluent builder and route() assemble the same route: for the same
\* body, query and params schemas and the same fn, the sequence returned by
\* typedRoute().body(b).query(q).params(p).handler(fn) and the sequence
\* [steps of route({body: b, query: q, params: p})..., fn] have the same
\* length and treat every request identically: each step is called with the
\* same fields and the validation step leaves the same fields, sends the same
\* 400 response or calls next() the same way.
C22_BuilderMatchesRoute ==
    built # <<>>
    => /\ Len(built[1]) = Len(ViaRoute)
       /\ \A k \in DOMAIN built[1] : built[1][k].kind = ViaRoute[k].kind
       /\ \A f \in Flights, g \in Flights :
             SameRequestBothWays(f, g)
             => \A t \in DOMAIN flights[f].trace \cap DOMAIN flights[g].trace :
                   LET viaRoute == flights[f].trace[t]
                       viaBuilder == flights[g].trace[t]
                   IN  /\ viaBuilder.step = viaRoute.step
                       /\ viaBuilder.before = viaRoute.before
                       /\ Stack(flights[g])[viaBuilder.step].kind = "validation"
                          => /\ viaBuilder.after = viaRoute.after
                             /\ viaBuilder.sends = viaRoute.sends
                             /\ viaBuilder.nexts = viaRoute.nexts

\* body, query and params all configured; the same valid request went both
\* ways, passed both validation steps and reached both handlers with the
\* same canonicalized fields
C22_Witness ==
    /\ Len(router) = 2
    /\ Configured([l \in Locations |-> Slot(routeArgs[1], l)]) = Locations
    /\ \E f \in Flights, g \in Flights :
          /\ SameRequestBothWays(f, g)
          /\ Len(flights[f].trace) = 2 /\ Len(flights[g].trace) = 2
          /\ flights[f].trace[2].before = flights[g].trace[2].before
          /\ flights[f].trace[2].before # flights[f].orig

-----------------------------------------------------------------------------
(* The same definition spliced twice into one registration: SpecTwice.     *)
(* The application calls route(schemas) once and registers                 *)
(* router.get(path, A, A, handler); Express dispatches requests to it.     *)

\* request schemas of any of the three kinds, no response map
TwiceSchemaSets == {ss \in SchemaSets : ~ss.response.defined}

NextTwice ==
    \/ \E schemas \in TwiceSchemaSets : defs = <<>> /\ Route(schemas)
    \/ /\ router = <<>> /\ defs # <<>>
       /\ \E method \in WrapMethods, path \in Paths :
             Register(method, path, <<DefinitionArg(defs[1]),
                                      DefinitionArg(defs[1]),
                                      FunctionArg(FnStep("handler"))>>)
    \/ \E r \in DOMAIN router, raw \in RawRequests : Receive(r, raw)
    \/ StepValidation
    \/ \E status \in FlightStatuses, body \in FlightBodies :
          StepHandler(status, body)

SpecTwice == Init /\ [][NextTwice]_vars

\* a validation call directly followed by another validation call
Revalidations ==
    {i \in ValidationCalls : i + 1 \in ValidationCalls}

\* the fields a passing validation step with these schemas makes of fields
Canonicalized(schemas, fields) ==
    [l \in Locations |->
        IF l \in Configured(schemas) THEN Canonical(schemas, fields, l)
        ELSE fields[l]]

\* the schema accepts value v and returns it as it is
FixedPoint(schema, v) == safeParse(schema, v) = Success(v)

-----------------------------------------------------------------------------
\* C23 as stated: running the validation step a second time on a request that
\* already passed it with the same schemas passes again and leaves body, query
\* and params unchanged, whatever the schemas are.
C23_RevalidationIdempotent ==
    \A i \in Revalidations :
        LET again == request.trace[i + 1]
        IN  /\ again.errors = <<>>
            /\ again.sends = <<>>
            /\ again.after = again.before

\* C23 (amended): the second run of the validation step receives the fields
\* the first run canonicalized, and when every configured schema accepts its
\* own canonical output and returns it unchanged (as coercing and defaulting
\* schemas do), the second run passes, calls next() once without an argument
\* and leaves body, query and params at the canonical values.
C23_FixedPointRevalidation ==
    \A i \in Revalidations :
        LET first == request.trace[i]
            again == request.trace[i + 1]
            schemas == StepOf(first).schemas
            canon == Canonicalized(schemas, first.before)
        IN  /\ StepOf(again).schemas = schemas
            /\ again.before = canon
            /\ (\A l \in Configured(schemas) : FixedPoint(schemas[l], canon[l]))
               => /\ again.errors = <<>>
                  /\ again.sends = <<>>
                  /\ again.nexts = <<Undefined>>
                  /\ again.after = canon

\* a coerced page and an e-mail address went through both validation runs
\* and reached the handler as the canonical values
C23_Witness ==
    /\ request.state = "responded"
    /\ Len(request.trace) = 3
    /\ Revalidations = {1}
    /\ StepOf(request.trace[1]).schemas =
          [NoSchemas EXCEPT !.body = "email", !.query = "page"]
    /\ request.orig.query = "s2"
    /\ request.trace[3].before.query = "n2"
    /\ request.trace[3].before.body = "sEmail"

-----------------------------------------------------------------------------
\* C24: validation failures are data, never exceptions: for every request,
\* whatever its body, query and params contain, the call of the validation
\* step does not throw and every next() it makes is without an error
\* argument; when a configured location fails, the only thing the step does
\* towards the client is the one 400 response, and the request does not end
\* up with the error handlers.
C24_FailuresAreResponses ==
    \A i \in ValidationCalls :
        LET inv == request.trace[i]
            schemas == StepOf(inv).schemas
        IN  /\ ~inv.threw
            /\ \A k \in DOMAIN inv.nexts : inv.nexts[k] = Undefined
            /\ Failing(schemas, inv.before) # {}
               => /\ inv.nexts = <<>>
                  /\ Len(inv.sends) = 1 /\ inv.sends[1].status = 400
                  /\ i = Len(request.trace) => request.state = "responded"

\* body, query and params all fail their schemas; the step answered 400
C24_Witness ==
    /\ request.state = "responded"
    /\ \E i \in ValidationCalls :
          LET inv == request.trace[i]
          IN  /\ Failing(StepOf(inv).schemas, inv.before) = Locations
              /\ ~inv.threw /\ inv.nexts = <<>>
              /\ request.res = <<ValidationResponse(inv.errors)>>

-----------------------------------------------------------------------------
\* C25: during one invocation of the validation step each configured schema
\* is run exactly once, against the value its own location's field had when
\* the step was called (the body schema against body, the query schema
\* against query, the params schema against params), and no schema is run
\* for a location that has none configured.
C25_OneParsePerConfiguredLocation ==
    \A i \in ValidationCalls :
        LET inv == request.trace[i]
            schemas == StepOf(inv).schemas
            runsFor(l) == {k \in DOMAIN inv.parsed : inv.parsed[k].location = l}
        IN  /\ \A l \in Configured(schemas) :
                  /\ Cardinality(runsFor(l)) = 1
                  /\ \A k \in runsFor(l) :
                        /\ inv.parsed[k].schema = schemas[l]
                        /\ inv.parsed[k].value = inv.before[l]
            /\ \A l \in Locations \ Configured(schemas) : runsFor(l) = {}
            /\ Len(inv.parsed) = Cardinality(Configured(schemas))

\* two different schemas on two locations holding different values, the
\* third location unconfigured: two runs, each on its own field
C25_Witness ==
    \E i \in ValidationCalls :
        LET inv == request.trace[i]
            schemas == StepOf(inv).schemas
        IN  /\ schemas = [NoSchemas EXCEPT !.body = "email", !.query = "page"]
            /\ inv.before.body = "sEmail" /\ inv.before.query = "s2"
            /\ inv.parsed =
                  <<[schema |-> "email", location |-> "body", value |-> "sEmail"],
                    [schema |-> "page", location |-> "query", value |-> "s2"]>>

-----------------------------------------------------------------------------
\* the calls of validation steps made for flight f
ValidationCallsOf(f) ==
    {t \in DOMAIN flights[f].trace :
        Stack(flights[f])[flights[f].trace[t].step].kind = "validation"}

\* C26: a validation step shared by requests in flight together keeps no
\* state between them: for any interleaving, what a call of the step does
\* for a request (the error list and 400 body, or the rewritten fields) is
\* determined by that request's own body, query and params and the schemas:
\* the errors are exactly those of its own failing locations, and two
\* requests with the same fields through the same route get the same
\* outcome.
C26_NoStateBetweenRequests ==
    /\ \A f \in Flights : \A t \in ValidationCallsOf(f) :
          LET inv == flights[f].trace[t]
              schemas == Stack(flights[f])[inv.step].schemas
              failing == Failing(schemas, inv.before)
          IN  /\ inv.before = flights[f].orig
              /\ LocationsOf(inv.errors) = InOrder(failing)
              /\ \A k \in DOMAIN inv.errors :
                    inv.errors[k].issues =
                       safeParse(schemas[inv.errors[k].location],
                                 inv.before[inv.errors[k].location]).issues
              /\ inv.sends = IF failing = {} THEN <<>>
                             ELSE <<ValidationResponse(inv.errors)>>
              /\ inv.nexts = IF failing = {} THEN <<Undefined>> ELSE <<>>
              /\ \A l \in Locations :
                    inv.after[l] = IF l \in Configured(schemas) \ failing
                                   THEN Canonical(schemas, inv.before, l)
                                   ELSE inv.before[l]
    /\ \A f \in Flights, g \in Flights :
          /\ flights[f].route = flights[g].route
          /\ flights[f].orig = flights[g].orig
          /\ flights[f].trace # <<>> /\ flights[g].trace # <<>>
          => flights[f].trace[1] = flights[g].trace[1]

\* two requests through the same validation step: one was rejected with
\* errors on two locations, the other, valid, went through the step after it
\* (the step's latest error list is empty) and reached the handler
C26_Witness ==
    \E f \in Flights, g \in Flights :
        /\ f # g
        /\ flights[f].route = flights[g].route
        /\ flights[f].state = "responded" /\ Len(flights[f].trace) = 1
        /\ Len(flights[f].trace[1].errors) = 2
        /\ Len(flights[g].trace) = 2
        /\ flights[g].trace[1].errors = <<>>
        /\ flights[g].trace[1].after # flights[g].orig
        /\ Left(flights[f].route) = <<>>

-----------------------------------------------------------------------------
\* the request is being dispatched through the sequence handler() call j
\* returned, and that builder had a request schema set
ThroughBuilt(j) ==
    /\ request.state # "idle"
    /\ SetIn(LogBefore(j)) # NoSchemas
    /\ Stack(request) = built[j]

\* C27: in a sequence built by the fluent builder with at least one of body,
\* query and params set, a request that fails validation reaches no use()
\* step and not the handler (the only call made for it is the validation
\* step, which answers 400); every use() step and the handler are called
\* only for requests whose configured fields all pass, and are called with
\* the canonicalized values in the configured fields.
C27_UseStepsBehindValidation ==
    \A j \in DOMAIN built :
        ThroughBuilt(j)
        => LET schemas == SetIn(LogBefore(j))
               failing == Failing(schemas, request.orig)
           IN  /\ \A i \in DOMAIN request.trace :
                     StepOf(request.trace[i]).kind = "fn"
                     => /\ failing = {}
                        /\ i > 1
                        /\ \A l \in Configured(schemas) :
                              request.trace[i].before[l] =
                                 Canonical(schemas, request.orig, l)
               /\ failing # {} /\ request.trace # <<>>
                  => /\ Len(request.trace) = 1
                     /\ request.state = "responded"
                     /\ request.res =
                           <<ValidationResponse(request.trace[1].errors)>>

\* typedRoute().query(page).use(mw).handler(fn): a request with query "2"
\* passed validation and mw was called with the number 2 in query
C27_Witness ==
    /\ Len(built) = 1 /\ ThroughBuilt(1)
    /\ built[1] = <<ValidationStep([NoSchemas EXCEPT !.query = "page"]),
                    FnStep("mw"), FnStep("handler")>>
    /\ request.orig.query = "s2"
    /\ Len(request.trace) >= 2
    /\ StepOf(request.trace[2]) = FnStep("mw")
    /\ request.trace[2].before.query = "n2"

-----------------------------------------------------------------------------
\* C28: a rejected request is not rolled back: when the validation step
\* answers 400, every configured location that passed its schema has been
\* assigned its canonicalized value, the failing and the unconfigured
\* locations hold what they held, and these are the fields the request keeps
\* after the rejection.
C28_NoRollbackOnRejection ==
    \A i \in ValidationCalls :
        LET inv == request.trace[i]
            schemas == StepOf(inv).schemas
            failing == Failing(schemas, inv.before)
        IN  failing # {}
            => /\ \A l \in Configured(schemas) \ failing :
                     /\ inv.after[l] = Canonical(schemas, inv.before, l)
                     /\ l \in Range(inv.written)
               /\ \A l \in failing \cup (Locations \ Configured(schemas)) :
                     /\ inv.after[l] = inv.before[l]
                     /\ l \notin Range(inv.written)
               /\ i = Len(request.trace) => request.req = inv.after

\* body "2" fails the e-mail schema, query "2" passes the page schema: the
\* request answered with 400 holds the raw body and the number 2 as query
C28_Witness ==
    /\ request.state = "responded"
    /\ Len(request.trace) = 1 /\ ValidationCalls = {1}
    /\ StepOf(request.trace[1]).schemas["body"] = "email"
    /\ StepOf(request.trace[1]).schemas["query"] = "page"
    /\ request.orig.body = "s2" /\ request.orig.query = "s2"
    /\ LocationsOf(request.trace[1].errors) = <<"body">>
    /\ request.res[1].status = 400
    /\ request.req.body = "s2" /\ request.req.query = "n2"

-----------------------------------------------------------------------------
(* A builder that is configured further after handler(): SpecSnapshot.     *)
(* The application holds one builder, calls handler(fn) on it up to        *)
(* MaxHandlerCalls times and makes up to MaxSnapshotCalls configuration    *)
(* calls before, between and after the handler() calls.                    *)

MaxSnapshotCalls == 3
MaxHandlerCalls == 2

SnapshotBodySchemas == {"email", "page"}

NextSnapshot ==
    \/ builders = <<>> /\ TypedRoute
    \/ \E schema \in SnapshotBodySchemas :
          Budget("a", MaxSnapshotCalls) /\ BuilderBody("a", schema)
    \/ \E schema \in QuerySchemas :
          Budget("a", MaxSnapshotCalls) /\ BuilderQuery("a", schema)
    \/ \E schema \in ParamsSchemas :
          Budget("a", MaxSnapshotCalls) /\ BuilderParams("a", schema)
    \/ \E status \in ResponseStatusChoices, schema \in BodySchemas :
          Budget("a", MaxSnapshotCalls) /\ BuilderResponse("a", status, schema)
    \/ \E f \in BuilderMiddlewares :
          Budget("a", MaxSnapshotCalls) /\ BuilderUse("a", f)
    \/ Len(built) < MaxHandlerCalls /\ BuilderHandler("a", "handler")

SpecSnapshot == Init /\ [][NextSnapshot]_vars

\* the steps of a returned sequence between the validation step and fn
UseSteps(steps) ==
    SelectSeq(SubSeq(steps, 1, Len(steps) - 1), LAMBDA st : st.kind = "fn")

\* sequence p is the beginning of sequence q
IsPrefix(p, q) == Len(p) <= Len(q) /\ p = SubSeq(q, 1, Len(p))

-----------------------------------------------------------------------------
\* C29: handler(fn) reads the builder without changing it and returns a new
\* array that is a snapshot: the builder's fields are those its configuration
\* calls alone gave it, however many handler() calls were made in between;
\* every returned sequence keeps, whatever configuration calls follow, the
\* validation schemas and use() steps of the calls made before it was
\* returned; and a later handler() call returns another array that begins
\* with the same use() steps in the same order (and equals the earlier one
\* when nothing was configured in between).
C29_HandlerReturnsSnapshot ==
    /\ \A i \in DOMAIN builders : builders[i] = Replay(typedRoute, configLog)
    /\ \A j \in DOMAIN built :
          LET log == LogBefore(j)
              validation == IF SetIn(log) = NoSchemas THEN <<>>
                            ELSE <<ValidationStep(SetIn(log))>>
          IN  /\ ~builtAt[j].live
              /\ built[j] = RouteBuilder_handler(builtFrom[j],
                                                 FnStep(builtAt[j].fn))
              /\ SubSeq(built[j], 1, Len(validation)) = validation
              /\ UseSteps(built[j]) = UsedIn(log)
    /\ \A j \in DOMAIN built, k \in DOMAIN built :
          j < k
          => /\ IsPrefix(UseSteps(built[j]), UseSteps(built[k]))
             /\ builtAt[j].at = builtAt[k].at => built[k] = built[j]

\* use(mw), handler(fn), then body(email) and use(auth), handler(fn) again:
\* the first sequence is still [mw, fn], the second is
\* [validation(email), mw, auth, fn], and the builder holds what the three
\* configuration calls gave it
C29_Witness ==
    /\ Len(built) = 2
    /\ Len(configLog) = 3 /\ builtAt[1].at = 1 /\ builtAt[2].at = 3
    /\ built[1] = <<FnStep("mw"), FnStep("handler")>>
    /\ built[2] = <<ValidationStep([NoSchemas EXCEPT !.body = "email"]),
                    FnStep("mw"), FnStep("auth"), FnStep("handler")>>
    /\ builders[1].bodySchema = "email"
    /\ builders[1].middlewares = <<FnStep("mw"), FnStep("auth")>>

-----------------------------------------------------------------------------
(* Branded values of every origin as arguments: SpecBrand.  The            *)
(* application creates at most one definition with route() and makes one   *)
(* wrapped call whose arguments are that definition, hand-made objects and *)
(* functions carrying a __brand, plain functions and null.                 *)

MaxBrandArgs == 3

\* the hand-made values
ForgedArgs == {ForgedDefinitionArg(<<FnStep("mw")>>)}
OtherBrandArgs == {OtherBrandArg(<<FnStep("auth")>>)}
BrandedFunctionArgs == {BrandedFunctionArg(FnStep("handler"), <<FnStep("mw")>>)}

BrandArgs ==
    {DefinitionArg(defs[i]) : i \in DOMAIN defs}
    \cup ForgedArgs \cup OtherBrandArgs \cup BrandedFunctionArgs
    \cup {FunctionArg(FnStep("auth")), NullArg}

BrandArgLists == UNION {[1..n -> BrandArgs] : n \in 0..MaxBrandArgs}

NextBrand ==
    \/ \E schemas \in WrapSchemaSets : defs = <<>> /\ Route(schemas)
    \/ /\ wrapCalls = <<>>
       /\ \E method \in WrapMethods, path \in Paths, handlers \in BrandArgLists :
             Register(method, path, handlers)

SpecBrand == Init /\ [][NextBrand]_vars

\* what the claim has an argument contribute, by what the argument is
ByBrand(arg) ==
    CASE arg \in {DefinitionArg(defs[i]) : i \in DOMAIN defs} \cup ForgedArgs
            -> arg.middleware
      [] arg \in OtherBrandArgs -> <<>>
      [] arg \in BrandedFunctionArgs -> <<arg.step>>
      [] arg.typeof = "function" /\ arg \notin BrandedFunctionArgs -> <<arg.step>>
      [] OTHER -> <<>>

-----------------------------------------------------------------------------
\* C30: the registration wrapper treats an argument as a route definition if
\* and only if it is a non-null object whose __brand is 'RouteDefinition',
\* whoever created it: the definitions of route() and hand-made branded
\* objects alike contribute their middleware list; an object with another
\* __brand contributes nothing; and a function is registered as itself even
\* when it carries __brand 'RouteDefinition' and a middleware list.
C30_BrandDecides ==
    \A k \in DOMAIN wrapCalls :
        LET args == wrapCalls[k].args
        IN  /\ \A i \in DOMAIN args :
                  isRouteDefinition(args[i])
                  <=> /\ args[i].typeof = "object" /\ ~args[i].isNull
                      /\ args[i].hasBrand /\ args[i].brand = "RouteDefinition"
            /\ k \in DOMAIN router
            /\ Registered(k).handlers
                 = Concat([i \in DOMAIN args |-> ByBrand(args[i])])

\* (path, forged definition, other-brand object, branded function): the
\* forged definition's step and the function itself are registered
C30_Witness ==
    \E k \in DOMAIN wrapCalls :
        LET args == wrapCalls[k].args
        IN  /\ Len(args) = 3
            /\ args[1] \in ForgedArgs
            /\ args[2] \in OtherBrandArgs
            /\ args[3] \in BrandedFunctionArgs
            /\ Registered(k).handlers = <<FnStep("mw"), FnStep("handler")>>

====
